---- MODULE Spec2Model ----
(***************************************************************************)
(* Model of travis/githubreleases.py: one run of main(), which resolves    *)
(* the latest release of a github repository, first through the            *)
(* releases/latest resource and then through the paginated tag list.       *)
(*                                                                         *)
(* Python values are modelled as follows.                                  *)
(*   - a str that the program inspects (a tag name) is the sequence of its *)
(*     characters, <<"9", ".", "0">>; Ord gives the code point that        *)
(*     Python's string comparison uses;                                    *)
(*   - a dict is a function from its keys to its values (a TLA+ record);   *)
(*     a key lookup d['k'] raises KeyError when "k" \notin DOMAIN d;       *)
(*   - None is the record None; a str that sits in a list beside dicts is  *)
(*     wrapped as PyStr(s), so that "is this element a dict" is decidable; *)
(*   - an uncaught exception ends the run: raised names it and the         *)
(*     interpreter's exit status is 1.                                     *)
(* The server is the environment: every requests.get draws its response    *)
(* from a bounded set.  requests and served are the log of the requests    *)
(* issued and of the responses received.                                   *)
(***************************************************************************)
EXTENDS Integers, Sequences, FiniteSets, TLC

VARIABLES
  pc,         \* where the run stands: "get_latest_release", "get_all_pages",
              \* "paging" (the while loop), "select", "main", "done"
  tarball,    \* args.tarball (lines 107-109)
  requests,   \* the URLs of the requests.get calls so far (lines 46, 55, 63)
  served,     \* the responses to them, in the same order
  resp_next,  \* the "next" URL of resp.links in get_all_pages, or NoNext
  result,     \* result of get_all_pages (lines 51-57)
  release,    \* release of latest_release and main (lines 92-98, 112)
  stdout,     \* what sys.stdout.write has written (lines 117, 119)
  exitcode,   \* main's return value, or 1 after an uncaught exception
  raised      \* the uncaught exception that ended the run, or ""

vars == <<pc, tarball, requests, served, resp_next, result, release, stdout, exitcode, raised>>

(* ---------------------------- bounds ----------------------------------- *)
\* most tags the repository holds over all pages of the tags collection
MaxTags == 3
\* most pages of the tags collection on which the server sends a "next" link
MaxPages == 2

(* ---------------------------- values ----------------------------------- *)
None == [py_none |-> TRUE]

PyStr(s) == [py_str |-> s]

IsDict(x) == ("py_str" \notin DOMAIN x) /\ ("py_none" \notin DOMAIN x)

NoNext == "no-next-link"

ReleaseUrl == "repos/org/repo/releases/latest"

TagsUrl == "repos/org/repo/tags"

NextUrls == {"repos/org/repo/tags?page=2", "repos/org/repo/tags?page=3"}

\* code points of the characters that occur in the modelled names
Ord(c) ==
  CASE c = "\n" -> 10
    [] c = "-" -> 45
    [] c = "." -> 46
    [] c = "0" -> 48
    [] c = "1" -> 49
    [] c = "2" -> 50
    [] c = "3" -> 51
    [] c = "4" -> 52
    [] c = "9" -> 57
    [] c = "R" -> 82
    [] c = "c" -> 99
    [] c = "r" -> 114
    [] c = "v" -> 118

Digits == {"0", "1", "2", "3", "4", "9"}

Separators == {"-", "."}

SeqsUpTo(S, n) == UNION {[1..k -> S] : k \in 0..n}

(* ------------------- the version pattern (line 78) --------------------- *)
\* index just after the run of digits of s that starts at index i (\d+ is greedy)
RECURSIVE DigitsEnd(_, _)
DigitsEnd(s, i) ==
  IF i <= Len(s) /\ s[i] \in Digits THEN DigitsEnd(s, i + 1) ELSE i

\* '$' matches at the end of the string and just before a newline that ends it
AtEnd(s, i) == i = Len(s) + 1 \/ (i = Len(s) /\ s[i] = "\n")

\* re.compile(r'^R?\d+[\-\.]\d+([\-\.]\d+)?$').match(s).  R? needs no
\* backtracking: "R" is no digit, so skipping it or not is decided by s[1].
regexp_version(s) ==
  LET i0 == IF Len(s) >= 1 /\ s[1] = "R" THEN 2 ELSE 1
      i1 == DigitsEnd(s, i0)
      i2 == DigitsEnd(s, i1 + 1)
      i3 == DigitsEnd(s, i2 + 1)
  IN /\ i1 > i0
     /\ i1 <= Len(s) /\ s[i1] \in Separators
     /\ i2 > i1 + 1
     /\ \/ AtEnd(s, i2)
        \/ /\ i2 <= Len(s) /\ s[i2] \in Separators
           /\ i3 > i2 + 1
           /\ AtEnd(s, i3)

(* ------------------- str ordering and list.sort ------------------------ *)
\* Python's a < b on str: by code point, a proper prefix is smaller
RECURSIVE StrLess(_, _)
StrLess(a, b) ==
  IF a = <<>> THEN b # <<>>
  ELSE IF b = <<>> THEN FALSE
  ELSE IF Ord(Head(a)) # Ord(Head(b)) THEN Ord(Head(a)) < Ord(Head(b))
  ELSE StrLess(Tail(a), Tail(b))

\* x put into the descending list s, after the elements not smaller than x
RECURSIVE InsertDesc(_, _)
InsertDesc(x, s) ==
  IF s = <<>> THEN <<x>>
  ELSE IF StrLess(Head(s), x) THEN <<x>> \o s
  ELSE <<Head(s)>> \o InsertDesc(x, Tail(s))

\* names.sort() without reverse=True: ascending, the smallest name first
RECURSIVE SortForward(_)
SortForward(names) ==
  IF names = <<>> THEN <<>>
  ELSE LET rest == SortForward(Tail(names))
           smaller == SelectSeq(rest, LAMBDA n : StrLess(n, Head(names)))
           others == SelectSeq(rest, LAMBDA n : ~StrLess(n, Head(names)))
       IN smaller \o <<Head(names)>> \o others

\* names.sort(reverse=True)
RECURSIVE SortReverse(_)
SortReverse(names) ==
  IF names = <<>> THEN <<>>
  ELSE InsertDesc(names[Len(names)], SortReverse(SubSeq(names, 1, Len(names) - 1)))

(* ------------------- get_latest_tag (lines 76-84) ---------------------- *)
\* the search run from the end of the list: the last tag of that name
RECURSIVE LastWithName(_, _)
LastWithName(tags, latest_tag_name) ==
  IF tags = <<>> THEN None
  ELSE IF tags[Len(tags)].name = latest_tag_name THEN tags[Len(tags)]
  ELSE LastWithName(SubSeq(tags, 1, Len(tags) - 1), latest_tag_name)

\* for tag in tags: if tag['name'] == latest_tag_name: return tag
RECURSIVE FirstWithName(_, _)
FirstWithName(tags, latest_tag_name) ==
  IF tags = <<>> THEN None
  ELSE IF Head(tags).name = latest_tag_name THEN Head(tags)
  ELSE FirstWithName(Tail(tags), latest_tag_name)

\* [tag['name'] for tag in tags if regexp_version.match(tag['name'])]
VersionNames(tags) ==
  LET kept == SelectSeq(tags, LAMBDA tag : regexp_version(tag.name))
  IN [i \in 1..Len(kept) |-> kept[i].name]

\* the outcome of get_latest_tag on the list get_all_pages returned: the
\* exception that leaves it, or the value it returns
get_latest_tag(tags) ==
  IF \E i \in 1..Len(tags) : ~IsDict(tags[i])
    THEN [exc |-> "TypeError", value |-> None]     \* tag['name'] on a str
  ELSE LET tag_names == SortReverse(VersionNames(tags))
       IN IF tag_names = <<>>
            THEN [exc |-> "IndexError", value |-> None]   \* tag_names[0]
          ELSE [exc |-> "", value |-> FirstWithName(tags, tag_names[1])]

\* an update that also fills in an empty tarball_url
UpdateWithTarball(tag) ==
  [k \in DOMAIN tag \cup {"tag_name", "tarball_url"} |->
     IF k = "tag_name" THEN tag["name"]
     ELSE IF k = "tarball_url" THEN "" ELSE tag[k]]

\* release.update({'tag_name': release['name']})
UpdateTagName(tag) ==
  [k \in DOMAIN tag \cup {"tag_name"} |-> IF k = "tag_name" THEN tag["name"] ELSE tag[k]]

(* ------------------- get_all_pages (lines 51-57) ----------------------- *)
\* result = resp.json(): the page read last replaces what was read before
ReplaceByPage(res, resp) ==
  IF resp.kind = "array" THEN resp.items
  ELSE [i \in 1..Len(resp.keys) |-> PyStr(resp.keys[i])]

\* result.extend(resp.json()): a list gives its items, a dict gives its keys
Extend(res, resp) ==
  IF resp.kind = "array" THEN res \o resp.items
  ELSE res \o [i \in 1..Len(resp.keys) |-> PyStr(resp.keys[i])]

\* while 'next' in resp.links.keys()
HasNext(link) == link # NoNext

\* the loop asking for the collection's own URL again
RequestTagsUrlAgain(link) == TagsUrl

\* next_url = resp.links['next']['url']
NextRequestUrl(link) == link

(* ------------------- what the server may answer ------------------------ *)
\* tag objects of the main specification: name, commit sha and, on some, the
\* tarball_url that the tags resource carries
TagPool ==
  { [name |-> <<"9", ".", "0">>, sha |-> "a"],
    [name |-> <<"1", "0", ".", "0">>, sha |-> "b", tarball_url |-> "tarball/10.0"],
    [name |-> <<"r", "c">>, sha |-> "c"] }

\* release objects: tag_name, tarball_url and the release's title
ReleasePool ==
  { [tag_name |-> <<"2", ".", "0">>, tarball_url |-> "tarball/2.0", name |-> <<"r", "c">>],
    [tag_name |-> <<"R", "1", "-", "2">>, tarball_url |-> "tarball/R1-2", name |-> <<"R", "1", "-", "2">>] }

Resp(ok, kind, items, keys, obj, next) ==
  [ok |-> ok, kind |-> kind, items |-> items, keys |-> keys, obj |-> obj, next |-> next]

\* a response that is not a success: its body is the API's error object
\* {"message": ..., "documentation_url": ...} or no JSON at all (a gateway's
\* error page); it carries no Link header
FailedResponses ==
  {Resp(FALSE, "object", <<>>, <<"message", "documentation_url">>, None, NoNext),
   Resp(FALSE, "invalid", <<>>, <<>>, None, NoNext)}

ReleaseResponses ==
  {Resp(TRUE, "object", <<>>, <<>>, obj, NoNext) : obj \in ReleasePool}
  \cup FailedResponses

\* a page of the tags collection: at most room more tags, and a "next" link
\* only while the server has pages left
TagPages(room, more) ==
  {Resp(TRUE, "array", items, <<>>, None, next) :
     items \in SeqsUpTo(TagPool, room),
     next \in (IF more THEN NextUrls ELSE {}) \cup {NoNext}}

TagPagesServed == Len(served) - 1

(* ---------------------------- the run ---------------------------------- *)
Init ==
  /\ pc = "get_latest_release"
  /\ tarball \in BOOLEAN
  /\ requests = <<>>
  /\ served = <<>>
  /\ resp_next = NoNext
  /\ result = <<>>
  /\ release = None
  /\ stdout = <<>>
  /\ exitcode = 0
  /\ raised = ""

\* the run ends with an uncaught exception
Raise(exc) ==
  /\ pc' = "done"
  /\ raised' = exc
  /\ exitcode' = 1

\* get_latest_release with the tag_name update of line 97 applied to every
\* record, the release object included
GetLatestReleaseUpdated ==
  /\ pc = "get_latest_release"
  /\ \E r \in ReleaseResponses :
       /\ requests' = Append(requests, ReleaseUrl)
       /\ served' = Append(served, r)
       /\ IF r.ok
            THEN /\ release' = UpdateTagName(r.obj)
                 /\ pc' = "main"
            ELSE /\ release' = None
                 /\ pc' = "get_all_pages"
  /\ UNCHANGED <<tarball, resp_next, result, stdout, exitcode, raised>>

\* latest_release calls get_latest_release (lines 92-93, 60-69)
GetLatestRelease ==
  /\ pc = "get_latest_release"
  /\ \E r \in ReleaseResponses :
       /\ requests' = Append(requests, ReleaseUrl)
       /\ served' = Append(served, r)
       /\ IF r.ok
            THEN /\ release' = r.obj
                 /\ pc' = "main"
            ELSE /\ release' = None
                 /\ pc' = "get_all_pages"
  /\ UNCHANGED <<tarball, resp_next, result, stdout, exitcode, raised>>

\* get_latest_tag calls get_all_pages, which gets the first page (lines
\* 73-77, 45-51); on a failure None goes back up to main (lines 94-98)
GetFirstPage ==
  /\ pc = "get_all_pages"
  /\ \E r \in TagPages(MaxTags, MaxPages >= 1) \cup FailedResponses :
       /\ requests' = Append(requests, TagsUrl)
       /\ served' = Append(served, r)
       /\ IF r.ok
            THEN /\ result' = r.items
                 /\ resp_next' = r.next
                 /\ pc' = "paging"
            ELSE /\ pc' = "main"
                 /\ UNCHANGED <<result, resp_next>>
  /\ UNCHANGED <<tarball, release, stdout, exitcode, raised>>

\* one turn of the while loop of get_all_pages (lines 52-56)
GetNextPage ==
  /\ pc = "paging"
  /\ HasNext(resp_next)
  /\ \E r \in TagPages(MaxTags - Len(result), TagPagesServed + 1 <= MaxPages)
              \cup FailedResponses :
       /\ requests' = Append(requests, NextRequestUrl(resp_next))
       /\ served' = Append(served, r)
       /\ IF r.kind = "invalid"
            THEN /\ Raise("ValueError")      \* resp.json()
                 /\ UNCHANGED <<result, resp_next>>
            ELSE /\ result' = Extend(result, r)
                 /\ resp_next' = r.next
                 /\ UNCHANGED <<pc, exitcode, raised>>
  /\ UNCHANGED <<tarball, release, stdout>>

\* the loop ends on a response without a "next" link and get_all_pages
\* returns result to get_latest_tag (lines 52, 57, 75)
ReturnAllPages ==
  /\ pc = "paging"
  /\ ~HasNext(resp_next)
  /\ pc' = "select"
  /\ UNCHANGED <<tarball, requests, served, resp_next, result, release, stdout, exitcode, raised>>

\* get_latest_tag selects among the tags and latest_release adds tag_name
\* (lines 76-84, 94-98)
GetLatestTag ==
  /\ pc = "select"
  /\ LET got == get_latest_tag(result)
     IN IF got.exc # ""
          THEN /\ Raise(got.exc)
               /\ UNCHANGED release
          ELSE /\ release' = IF got.value = None THEN None ELSE UpdateTagName(got.value)
               /\ pc' = "main"
               /\ UNCHANGED <<exitcode, raised>>
  /\ UNCHANGED <<tarball, requests, served, resp_next, result, stdout>>

\* main after latest_release returned (lines 113-120)
Main ==
  /\ pc = "main"
  /\ IF release = None
       THEN /\ exitcode' = -1
            /\ pc' = "done"
            /\ UNCHANGED <<stdout, raised>>
     ELSE IF tarball
       THEN IF "tarball_url" \in DOMAIN release
              THEN /\ stdout' = Append(stdout, release["tarball_url"])
                   /\ exitcode' = 0
                   /\ pc' = "done"
                   /\ UNCHANGED raised
              ELSE /\ Raise("KeyError")
                   /\ UNCHANGED stdout
     ELSE /\ stdout' = Append(stdout, release["tag_name"])
          /\ exitcode' = 0
          /\ pc' = "done"
          /\ UNCHANGED raised
  /\ UNCHANGED <<tarball, requests, served, resp_next, result, release>>

Next ==
  GetLatestRelease \/ GetFirstPage \/ GetNextPage \/ ReturnAllPages \/ GetLatestTag \/ Main

Spec == Init /\ [][Next]_vars

\* the same run, in which get_all_pages always goes on: every request of the
\* loop is answered (requests.get blocks until it is) and the loop's test
\* is taken
LiveSpec ==
  Init /\ [][Next]_vars /\ WF_vars(GetNextPage) /\ WF_vars(ReturnAllPages)

(* ------------- the selection on its own, over many tag lists ----------- *)
\* tag objects for the selection: names around every part of the pattern, and
\* two names carried by two different tags
SelTagPool ==
  { [name |-> <<"9", ".", "0">>, sha |-> "a"],
    [name |-> <<"9", ".", "0">>, sha |-> "b"],
    [name |-> <<"1", "0", ".", "0">>, sha |-> "c"],
    [name |-> <<"1", ".", "2">>, sha |-> "d"],
    [name |-> <<"1", ".", "2", ".", "3">>, sha |-> "e"],
    [name |-> <<"R", "1", "-", "2">>, sha |-> "f"],
    [name |-> <<"R", "1", "-", "2">>, sha |-> "g", tarball_url |-> "tarball/R1-2"],
    [name |-> <<"1", ".", "2", ".", "3", ".", "4">>, sha |-> "h"],
    [name |-> <<"v", "9", ".", "9">>, sha |-> "i"],
    [name |-> <<"9", "9">>, sha |-> "j"],
    [name |-> <<"R">>, sha |-> "k"],
    [name |-> <<"9", ".">>, sha |-> "l"],
    [name |-> <<"r", "c">>, sha |-> "m"] }

\* the run at the point where the release request has failed and get_all_pages
\* has returned the whole tags collection, read in one page
InitSel ==
  /\ pc = "select"
  /\ tarball \in BOOLEAN
  /\ requests = <<ReleaseUrl, TagsUrl>>
  /\ \E tags \in SeqsUpTo(SelTagPool, MaxTags) :
       /\ served = <<Resp(FALSE, "object", <<>>, <<"message", "documentation_url">>, None, NoNext),
                     Resp(TRUE, "array", tags, <<>>, None, NoNext)>>
       /\ result = tags
  /\ resp_next = NoNext
  /\ release = None
  /\ stdout = <<>>
  /\ exitcode = 0
  /\ raised = ""

NextSel == GetLatestTag \/ Main

SpecSel == InitSel /\ [][NextSel]_vars

(* ======================= properties of the run ========================= *)
\* the release request has been answered, and not with a success
ReleaseFailed == Len(served) >= 1 /\ ~served[1].ok

\* the responses to the tags requests, first page first
TagResponses == SubSeq(served, 2, Len(served))

\* get_all_pages has returned a list and get_latest_tag has run on it
Selected ==
  /\ pc \in {"main", "done"}
  /\ Len(served) >= 2 /\ served[2].ok
  /\ raised # "ValueError"

\* every element of the fetched list is a tag object
AllTags(tags) == \A i \in 1..Len(tags) : IsDict(tags[i])

\* the version pattern, read off its description: an optional R, digits, a
\* separator, digits and optionally a separator and digits, and nothing else
IsDigits(s, from, to) == from <= to /\ \A i \in from..to : s[i] \in Digits

MatchesVersionPattern(s) ==
  \E r \in {0, 1}, a \in 1..Len(s), b \in 1..Len(s) :
    /\ r = 1 => (Len(s) >= 1 /\ s[1] = "R")
    /\ r + a + 1 + b <= Len(s)
    /\ IsDigits(s, r + 1, r + a)
    /\ s[r + a + 1] \in Separators
    /\ IsDigits(s, r + a + 2, r + a + 1 + b)
    /\ \/ Len(s) = r + a + 1 + b
       \/ \E c \in 1..Len(s) :
            /\ Len(s) = r + a + b + 2 + c
            /\ s[r + a + b + 2] \in Separators
            /\ IsDigits(s, r + a + b + 3, Len(s))

\* a >= b character by character: equal, or at the first place where they
\* differ a has the greater character or b has ended
LexGeq(a, b) ==
  \/ a = b
  \/ \E i \in 1..Len(a) :
       /\ \A j \in 1..(i - 1) : j <= Len(b) /\ a[j] = b[j]
       /\ (i > Len(b) \/ Ord(a[i]) > Ord(b[i]))

\* the version-like tags of a list, in the list's order
VersionTags(tags) == SelectSeq(tags, LAMBDA tag : MatchesVersionPattern(tag.name))

\* d with the key tag_name removed
WithoutTagName(d) == [k \in DOMAIN d \ {"tag_name"} |-> d[k]]

RECURSIVE Flatten(_)
Flatten(pages) ==
  IF pages = <<>> THEN <<>> ELSE Head(pages).items \o Flatten(Tail(pages))

(* C1: when the releases/latest request succeeds, latest_release returns    *)
(* exactly the JSON object of that response, and the only request ever      *)
(* issued in the run is the one to releases/latest: none goes to the tags   *)
(* endpoint, first page or continuation.                                    *)
C1_ReleaseVerbatim ==
  (Len(served) >= 1 /\ served[1].ok) =>
    /\ pc \in {"main", "done"}
    /\ release = served[1].obj
    /\ requests = <<ReleaseUrl>>

C1_Witness ==
  /\ pc = "done"
  /\ Len(served) >= 1 /\ served[1].ok
  /\ served[1].obj.name # served[1].obj.tag_name
  /\ stdout = <<served[1].obj.tag_name>>

(* C2 as claimed: when the release request fails and the fetched tag list   *)
(* holds a version-like tag, the returned record is the selected tag with   *)
(* tag_name equal to its name and with no tarball_url.                      *)
C2_TarballAbsent ==
  (Selected /\ ReleaseFailed /\ AllTags(result) /\ VersionTags(result) # <<>>) =>
    /\ release # None
    /\ release["tag_name"] = release["name"]
    /\ WithoutTagName(release) = get_latest_tag(result).value
    /\ "tarball_url" \notin DOMAIN release

(* C2 amended: when the release request fails and the fetched tag list      *)
(* holds a version-like tag, the returned record is the selected tag with   *)
(* tag_name equal to its name and every other field as the server sent it;  *)
(* no tarball_url is synthesized: the record has one exactly when the       *)
(* selected tag object came with one.                                       *)
C2_TagPassedThrough ==
  (Selected /\ ReleaseFailed /\ AllTags(result) /\ VersionTags(result) # <<>>) =>
    /\ release # None
    /\ release["tag_name"] = release["name"]
    /\ WithoutTagName(release) = get_latest_tag(result).value
    /\ \E i \in 1..Len(result) :
         /\ result[i] = WithoutTagName(release)
         /\ ("tarball_url" \in DOMAIN release) = ("tarball_url" \in DOMAIN result[i])

C2_Witness ==
  /\ Selected /\ ReleaseFailed
  /\ release # None
  /\ "tarball_url" \in DOMAIN release
  /\ \E i \in 1..Len(result) : IsDict(result[i]) /\ "tarball_url" \notin DOMAIN result[i]

(* C3: when the fetched tag list holds a name that matches the version      *)
(* pattern, get_latest_tag returns a tag whose name matches the pattern and *)
(* is greater than or equal, character by character, to every matching      *)
(* name of the list; tags that do not match are never returned and, taken   *)
(* out of the list, leave the returned tag the same.                        *)
C3_LexMax ==
  (Selected /\ AllTags(result) /\ VersionTags(result) # <<>>) =>
    /\ release # None
    /\ MatchesVersionPattern(release["name"])
    /\ \A i \in 1..Len(result) :
         MatchesVersionPattern(result[i].name) => LexGeq(release["name"], result[i].name)
    /\ WithoutTagName(release) = get_latest_tag(VersionTags(result)).value

\* {"9.0", "10.0"} with a greater name that does not match gives "9.0"
C3_Witness ==
  /\ Selected
  /\ Len(result) = 3
  /\ result[1].name = <<"v", "9", ".", "9">>
  /\ result[2].name = <<"1", "0", ".", "0">>
  /\ result[3].name = <<"9", ".", "0">>
  /\ release # None
  /\ release["name"] = <<"9", ".", "0">>

(* C10: when several tags of the fetched list carry the winning name,       *)
(* get_latest_tag returns the one with the smallest index in the fetched    *)
(* order: the tag object itself, not a later one of the same name.          *)
C10_FirstOfEqualNames ==
  (Selected /\ AllTags(result) /\ release # None) =>
    \E i \in 1..Len(result) :
      /\ result[i] = WithoutTagName(release)
      /\ \A j \in 1..(i - 1) : result[j].name # release["name"]

C10_Witness ==
  /\ Selected
  /\ release # None
  /\ \E i, j \in 1..Len(result) :
       /\ i < j
       /\ result[i] = WithoutTagName(release)
       /\ result[j].name = result[i].name
       /\ result[j] # result[i]

(* C5: after a chain of successful pages of the tags collection, the list   *)
(* get_all_pages holds, and returns once a page has no "next" link, is the  *)
(* concatenation of the pages' items in page order and, within a page, in   *)
(* the order served: nothing lost, duplicated or reordered.                 *)
C5_PagesConcatenated ==
  (Len(served) >= 2 /\ \A i \in 2..Len(served) : served[i].ok) =>
    result = Flatten(TagResponses)

\* three pages of one item each, "next" on pages 1 and 2 only, returned as 3 items
C5_Witness ==
  /\ Selected
  /\ Len(served) = 4
  /\ \A i \in 2..4 : served[i].ok /\ Len(served[i].items) = 1
  /\ served[2].items # served[3].items
  /\ served[3].items # served[4].items
  /\ HasNext(served[2].next) /\ HasNext(served[3].next) /\ ~HasNext(served[4].next)
  /\ Len(result) = 3

(* C9: get_all_pages issues one request per page, each continuation request *)
(* to the URL of the "next" link of the response just before it; it leaves  *)
(* the loop at the first response without a "next" link and no request      *)
(* follows; while a response has a "next" link the only step is the next    *)
(* request (no cap on the client's side); and with a server that ends the   *)
(* chain the call ends: it returns, unless the body of a continuation       *)
(* response is no JSON and resp.json() raises.                              *)
C9_OneRequestPerLink ==
  /\ Len(requests) = Len(served)
  /\ \A i \in 3..Len(requests) :
       HasNext(served[i - 1].next) /\ requests[i] = served[i - 1].next

C9_RaisesOnlyOnNoJson ==
  (pc = "done" /\ raised = "ValueError") => served[Len(served)].kind = "invalid"

C9_Pagination ==
  /\ []C9_OneRequestPerLink
  /\ [][(pc = "paging" /\ HasNext(resp_next)) => (Len(requests') = Len(requests) + 1)]_vars
  /\ []C9_RaisesOnlyOnNoJson
  /\ [][(pc = "paging" /\ ~HasNext(resp_next)) => (requests' = requests /\ pc' = "select")]_vars
  /\ [][(pc \in {"select", "main", "done"}) => (requests' = requests)]_vars
  /\ (pc = "paging") ~> (pc \in {"select", "done"})

C9_Witness ==
  /\ Selected
  /\ Len(requests) = 4
  /\ requests[3] # requests[4]
  /\ requests[3] # TagsUrl

(* C4 as claimed: when the tags collection is fetched successfully and is   *)
(* empty or has no version-like name, the selection yields "not found" as a *)
(* value, no exception leaves it, and the run ends with a non-zero exit     *)
(* code and nothing on standard output.                                     *)
C4_NotFoundIsAValue ==
  (/\ pc = "done"
   /\ Len(served) >= 2
   /\ \A i \in 2..Len(served) : served[i].ok
   /\ VersionTags(result) = <<>>) =>
    /\ raised = ""
    /\ release = None
    /\ exitcode # 0
    /\ stdout = <<>>

(* C6 as claimed: once a continuation request of get_all_pages has been     *)
(* answered with a non-success status, the fetch yields the empty result:   *)
(* the items of the earlier pages are dropped, nothing of the failed        *)
(* response is kept, and the caller goes on with "no release".              *)
C6_FailedPageDiscardsAll ==
  (\E i \in 3..Len(served) : ~served[i].ok) =>
    /\ raised = ""
    /\ pc \in {"main", "done"}
    /\ release = None
    /\ stdout = <<>>

(* C7 as claimed: with the tarball flag set and a tag-derived record that   *)
(* has no tarball_url, the run ends without raising and writes nothing or   *)
(* an explicit empty value.                                                 *)
C7_NoCrashOnAbsentTarball ==
  (/\ pc = "done"
   /\ tarball
   /\ ReleaseFailed
   /\ release # None
   /\ "tarball_url" \notin DOMAIN release) =>
    /\ raised = ""
    /\ (stdout = <<>> \/ stdout = <<"">>)

(* C8 as claimed: at the end of every run the exit code is 0 exactly when a *)
(* release record was resolved, and then exactly one string is on standard  *)
(* output, the tag name or, with the flag, the tarball URL; when no record  *)
(* was resolved the exit code is not 0 and nothing is on standard output.   *)
C8_ExitCodeAndOutput ==
  pc = "done" =>
    /\ (exitcode = 0) = (release # None)
    /\ release # None =>
         /\ Len(stdout) = 1
         /\ IF tarball
              THEN "tarball_url" \in DOMAIN release /\ stdout[1] = release["tarball_url"]
              ELSE stdout[1] = release["tag_name"]
    /\ release = None => (exitcode # 0 /\ stdout = <<>>)

====
